---- MODULE Spec2Model ----
(***************************************************************************)
(* Flight delay predictor: src/ml-model/train_model.py                     *)
(* (FlightDelayPredictor) and its HTTP service src/ml-model/ml_api.py.     *)
(*                                                                         *)
(* Conventions of the translation                                          *)
(*  - a Python dict is a TLA+ function over its keys; {} is EmptyDict;     *)
(*  - an optional value (None or v) is a sequence of at most one element:  *)
(*    <<>> is None and <<v>> is v;                                         *)
(*  - a float is held in thousandths (0.22 is 220, 25.0 is 25000): the     *)
(*    aggregator rounds to 3 decimals, so the tables are exact; a count is *)
(*    a plain integer; NaN is the reserved number NaN;                     *)
(*  - the sklearn estimators are opaque: a fitted classifier is the record *)
(*    of what it was fitted on, and its predict_proba is the record of the *)
(*    classifier and the matrix it was fed.                                *)
(***************************************************************************)
EXTENDS Integers, Sequences, FiniteSets, TLC

VARIABLES
    trainer,        \* the FlightDelayPredictor of train_model.main()
    disk,           \* the files of the model directory (file name -> content)
    saved,          \* history: the predictor state written by the last save_model
    api_predictor,  \* ml_api.predictor: None or a FlightDelayPredictor
    model_info,     \* ml_api.model_info
    load_returned,  \* history: None, or what ml_api.load_model() returned
    phase,          \* position in the workflow, "new" to "serving"
    response        \* what the last operation returned or raised

vars == <<trainer, disk, saved, api_predictor, model_info, load_returned, phase, response>>

EmptyDict == [k \in {} |-> 0]

NaN == -999999

IsNone(opt) == opt = <<>>

(***************************************************************************)
(* Bounds of the model.                                                    *)
(***************************************************************************)
MaxExtra == 1       \* rows a training file holds beyond the base corpus
MaxMissing == 1     \* files that may be missing from the model directory

(***************************************************************************)
(* Arithmetic on thousandths.                                              *)
(***************************************************************************)
\* numpy's round of a / b (b > 0) to an integer, halves to the even neighbour
RoundDiv(a, b) ==
    LET q == a \div b
        r2 == 2 * (a - q * b)
    IN  IF r2 < b THEN q
        ELSE IF r2 > b THEN q + 1
        ELSE IF q % 2 = 0 THEN q ELSE q + 1

RECURSIVE SqrtSearch(_, _, _)
SqrtSearch(v, lo, hi) ==
    IF lo >= hi THEN lo
    ELSE LET mid == (lo + hi + 1) \div 2
         IN  IF mid * mid <= v THEN SqrtSearch(v, mid, hi)
             ELSE SqrtSearch(v, lo, mid - 1)

\* the integer nearest to the square root of a / b (a >= 0, b > 0)
RoundSqrt(a, b) ==
    LET q == a \div b
        r == SqrtSearch(q, 0, 40000)
    IN  IF q > r * r + r \/ (q = r * r + r /\ 4 * (a % b) > b) THEN r + 1 ELSE r

RECURSIVE SumSeq(_)
SumSeq(s) == IF s = <<>> THEN 0 ELSE Head(s) + SumSeq(Tail(s))

Range(s) == {s[i] : i \in 1..Len(s)}

(***************************************************************************)
(* Training files.  A file is its header (the set of column names) and its *)
(* rows; pd.read_csv (load_data) returns it as the DataFrame df.  Only the *)
(* columns that decide the predictor's state are carried: the remaining    *)
(* numeric columns reach the classifier only, which is opaque.             *)
(***************************************************************************)
AllColumns ==
    {"OriginAirportName", "DestAirportName", "ArrDel15", "DepDelay", "ArrDelay",
     "CRSDepTime", "CRSArrTime", "DayOfWeek", "Month", "Carrier",
     "OriginState", "DestState"}

Flight(o, d, late, dep, arr, crs, month, carrier) ==
    [OriginAirportName |-> o, DestAirportName |-> d, ArrDel15 |-> late,
     DepDelay |-> dep, ArrDelay |-> arr, CRSDepTime |-> crs, Month |-> month,
     Carrier |-> carrier]

\* six flights JFK -> LAX, three of them late: the least a stratified 80/20
\* split with two classes in each partition accepts
BaseRows ==
    << Flight("JFK", "LAX", 0, 0, 0,    0,  1, "DL"),
       Flight("JFK", "LAX", 0, 1, 0,  630,  4, "DL"),
       Flight("JFK", "LAX", 0, 0, 1,  930,  4, "AA"),
       Flight("JFK", "LAX", 1, 3, 3, 1200,  7, "AA"),
       Flight("JFK", "LAX", 1, 2, 3, 1815, 10, "DL"),
       Flight("JFK", "LAX", 1, 3, 2, 2359, 12, "UA") >>

ExtraRows ==
    { Flight("LAX", "JFK", 1, 5, 4,  600,  3, "WN"),
      Flight("LAX", "LAX", 0, 0, 0, 1800,  8, "AA") }

RECURSIVE SeqsUpTo(_, _)
SeqsUpTo(S, n) ==
    IF n = 0 THEN {<<>>}
    ELSE LET shorter == SeqsUpTo(S, n - 1)
         IN  shorter \cup {Append(s, x) : s \in shorter, x \in S}

\* the training files: complete ones, one without the Carrier column, one
\* without the target column, and one that holds a header and no row
TrainingFiles ==
    {[columns |-> AllColumns, rows |-> BaseRows \o extra] :
        extra \in SeqsUpTo(ExtraRows, MaxExtra)}
    \cup {[columns |-> AllColumns \ {"Carrier"}, rows |-> BaseRows],
          [columns |-> AllColumns \ {"ArrDel15"}, rows |-> BaseRows],
          [columns |-> AllColumns, rows |-> <<>>]}

(***************************************************************************)
(* create_airport_features: the per-airport statistics of each role.       *)
(***************************************************************************)
ColumnOf(rows, c) == [i \in 1..Len(rows) |-> rows[i][c]]

\* pandas mean, rounded to 3 decimals
Mean(xs) == RoundDiv(1000 * SumSeq(xs), Len(xs))

\* pandas std (ddof = 1), rounded to 3 decimals: NaN for a single value
Std(xs) ==
    IF Len(xs) < 2 THEN NaN
    ELSE LET n == Len(xs)
             s == SumSeq(xs)
             s2 == SumSeq([i \in 1..n |-> xs[i] * xs[i]])
         IN  RoundSqrt(1000000 * (n * s2 - s * s), n * (n - 1))

OriginStatKeys ==
    <<"origin_ArrDel15_count", "origin_ArrDel15_mean", "origin_ArrDel15_std",
      "origin_DepDelay_mean", "origin_DepDelay_std",
      "origin_ArrDelay_mean", "origin_ArrDelay_std">>

DestStatKeys ==
    <<"dest_ArrDel15_count", "dest_ArrDel15_mean", "dest_ArrDel15_std",
      "dest_DepDelay_mean", "dest_DepDelay_std",
      "dest_ArrDelay_mean", "dest_ArrDelay_std">>

\* the aggregates of one group: count, mean and std of ArrDel15, mean and std
\* of DepDelay and of ArrDelay
Aggregate(late, dep, arr) ==
    <<Len(late), Mean(late), Std(late), Mean(dep), Std(dep), Mean(arr), Std(arr)>>

GroupRecord(g, keys) ==
    [k \in Range(keys) |->
        Aggregate(ColumnOf(g, "ArrDel15"), ColumnOf(g, "DepDelay"),
                  ColumnOf(g, "ArrDelay"))[CHOOSE i \in 1..Len(keys) : keys[i] = k]]

\* df.groupby(by).agg({...}).round(3), its columns named by keys
GroupStats(rows, by, keys) ==
    [name \in {rows[i][by] : i \in 1..Len(rows)} |->
        GroupRecord(SelectSeq(rows, LAMBDA r : r[by] = name), keys)]

\* the groupby raises KeyError when a column it names is not in df
AggColumns == {"OriginAirportName", "DestAirportName", "ArrDel15", "DepDelay", "ArrDelay"}

\* The repository pins no version of pandas.  On a table without rows (every
\* column of a header-only file is of dtype object) a build either refuses
\* the mean of an object column at the groupby, or refuses 'Unknown' as the
\* fill value of a categorical column, or does neither.
PandasBuilds == {"refuses_object_mean", "refuses_fill_value", "lenient"}

create_airport_features(self, df, pandas) ==
    IF ~(AggColumns \subseteq df.columns)
    THEN [raised |-> "KeyError", self |-> self]
    ELSE IF df.rows = <<>> /\ pandas = "refuses_object_mean"
    THEN [raised |-> "DataError", self |-> self]
    ELSE [raised |-> "",
          self |-> [self EXCEPT !.airport_stats =
                       [role \in {"origin", "dest"} |->
                           IF role = "origin"
                           THEN GroupStats(df.rows, "OriginAirportName", OriginStatKeys)
                           ELSE GroupStats(df.rows, "DestAirportName", DestStatKeys)]]]

(***************************************************************************)
(* feature_engineering: the derived categorical columns.                   *)
(***************************************************************************)
\* Python's order of the strings the categorical columns hold
SortOrder ==
    <<"AA", "DL", "UA", "Unknown", "WN", "afternoon", "evening", "fall",
      "morning", "nan", "night", "spring", "summer", "winter">>

\* the elements of S in the order the sequence order lists them
SortedBy(S, order) == SelectSeq(order, LAMBDA x : x \in S)

\* pd.cut(hour, bins=[0, 6, 12, 18, 24], labels=[...]): right-closed intervals,
\* an hour outside (0, 24] gets no label (None)
PeriodLabels == <<"night", "morning", "afternoon", "evening">>

departure_period(hour) ==
    IF 0 < hour /\ hour <= 6 THEN <<"night">>
    ELSE IF 6 < hour /\ hour <= 12 THEN <<"morning">>
    ELSE IF 12 < hour /\ hour <= 18 THEN <<"afternoon">>
    ELSE IF 18 < hour /\ hour <= 24 THEN <<"evening">>
    ELSE <<>>

season(month) ==
    IF month \in {12, 1, 2} THEN <<"winter">>
    ELSE IF month \in {3, 4, 5} THEN <<"spring">>
    ELSE IF month \in {6, 7, 8} THEN <<"summer">>
    ELSE IF month \in {9, 10, 11} THEN <<"fall">>
    ELSE <<>>

\* Series.mode(): the most frequent values that are not missing, in the column's order
Mode(col, order) ==
    LET present == {col[i][1] : i \in {j \in 1..Len(col) : col[j] # <<>>}}
        count(v) == Cardinality({i \in 1..Len(col) : col[i] = <<v>>})
    IN  SortedBy({v \in present : \A w \in present : count(w) <= count(v)}, order)

\* col.fillna(mode.iloc[0] if not mode.empty else 'Unknown')
FillWith(col, mode) ==
    [i \in 1..Len(col) |->
        IF col[i] # <<>> THEN col[i][1]
        ELSE IF mode # <<>> THEN mode[1] ELSE "Unknown"]

FillCategorical(col, order) == FillWith(col, Mode(col, order))

\* df_features.merge(stats, left_on=by, right_index=True, how='left'): the
\* column of a statistic, each row with the value of its airport
MergedColumn(table, rows, by, key) == [i \in 1..Len(rows) |-> table[rows[i][by]][key]]

\* the k-th smallest of the values xs
KthSmallest(xs, k) ==
    CHOOSE v \in Range(xs) :
        /\ Cardinality({i \in 1..Len(xs) : xs[i] < v}) < k
        /\ k <= Cardinality({i \in 1..Len(xs) : xs[i] <= v})

\* twice the median of the values xs (the median of an even number of values
\* is the mean of the two in the middle)
DoubledMedian(xs) ==
    KthSmallest(xs, (Len(xs) + 1) \div 2) + KthSmallest(xs, (Len(xs) + 2) \div 2)

\* col.fillna(col.median()), the median taken over the values present: a
\* column without any stays missing.  The filled column is held in halves of
\* the unit of col, in which the median is exact.
FillNumericWith(col, present) ==
    [i \in 1..Len(col) |->
        IF col[i] # NaN THEN 2 * col[i]
        ELSE IF present = <<>> THEN NaN
        ELSE DoubledMedian(present)]

FillNumeric(col) == FillNumericWith(col, SelectSeq(col, LAMBDA v : v # NaN))

\* the columns feature_engineering reads from df by name
EngineeringColumns ==
    {"CRSDepTime", "CRSArrTime", "OriginState", "DestState", "Month", "DayOfWeek"}

DerivedColumns ==
    {"departure_hour", "arrival_hour", "departure_period", "origin_state_code",
     "dest_state_code", "state_distance", "season", "is_weekend"}

\* the rest of feature_engineering, the statistics made (stats is what
\* create_airport_features returned)
Engineered(stats, df, pandas) ==
    IF stats.raised # "" THEN stats
    ELSE IF ~(EngineeringColumns \subseteq df.columns)
    THEN [raised |-> "KeyError", self |-> stats.self]
    \* 'Unknown' is not a category of departure_period
    ELSE IF (\A i \in 1..Len(df.rows) :
                departure_period(df.rows[i].CRSDepTime \div 100) = <<>>)
            /\ (Len(df.rows) > 0 \/ pandas = "refuses_fill_value")
    THEN [raised |-> "TypeError", self |-> stats.self]
    ELSE [raised |-> "",
          self |-> stats.self,
          columns |-> df.columns \cup Range(OriginStatKeys)
                         \cup Range(DestStatKeys) \cup DerivedColumns,
          rows |-> df.rows,
          departure_period |->
              FillCategorical([i \in 1..Len(df.rows) |->
                                  departure_period(df.rows[i].CRSDepTime \div 100)],
                              PeriodLabels),
          season |-> FillCategorical([i \in 1..Len(df.rows) |-> season(df.rows[i].Month)],
                                     SortOrder),
          statistics |->
              [k \in Range(OriginStatKeys) \cup Range(DestStatKeys) |->
                  FillNumeric(IF k \in Range(OriginStatKeys)
                              THEN MergedColumn(stats.self.airport_stats["origin"],
                                                df.rows, "OriginAirportName", k)
                              ELSE MergedColumn(stats.self.airport_stats["dest"],
                                                df.rows, "DestAirportName", k))]]

feature_engineering(self, df, pandas) ==
    Engineered(create_airport_features(self, df, pandas), df, pandas)

(***************************************************************************)
(* prepare_features: the encoders and the feature schema.                  *)
(***************************************************************************)
CandidateFeatures ==
    <<"DayOfWeek", "departure_hour", "arrival_hour", "state_distance",
      "is_weekend", "CRSDepTime", "CRSArrTime",
      "origin_ArrDel15_count", "origin_ArrDel15_mean", "origin_ArrDel15_std",
      "origin_DepDelay_mean", "origin_DepDelay_std",
      "dest_ArrDel15_count", "dest_ArrDel15_mean", "dest_ArrDel15_std",
      "dest_DepDelay_mean", "dest_DepDelay_std">>

categorical_features == <<"Carrier", "departure_period", "season">>

EncodedName(feature) ==
    CASE feature = "Carrier" -> "Carrier_encoded"
      [] feature = "departure_period" -> "departure_period_encoded"
      [] feature = "season" -> "season_encoded"

\* the values of a categorical column of the engineered table
CategoricalColumn(table, feature) ==
    IF feature = "Carrier" THEN ColumnOf(table.rows, "Carrier")
    ELSE table[feature]

\* LabelEncoder().fit: classes_ is the sorted distinct values
LabelEncoderFit(col) == [classes_ |-> SortedBy(Range(col), SortOrder)]

\* an encoder that gives a value it never saw the next free code
LabelEncoderTransformExtending(encoder, value) ==
    IF value \in Range(encoder.classes_)
    THEN (CHOOSE i \in 1..Len(encoder.classes_) : encoder.classes_[i] = value) - 1
    ELSE Len(encoder.classes_)

\* the code of a value under a fitted encoder; -1 for a value it never saw
LabelEncoderTransform(encoder, value) ==
    IF value \in Range(encoder.classes_)
    THEN (CHOOSE i \in 1..Len(encoder.classes_) : encoder.classes_[i] = value) - 1
    ELSE -1

\* the label_encoders after the loop over categorical_features: an encoder is
\* fitted only for a feature that has none yet
FittedEncoders(encoders, table) ==
    [f \in DOMAIN encoders \cup (Range(categorical_features) \cap table.columns) |->
        IF f \in DOMAIN encoders THEN encoders[f]
        ELSE LabelEncoderFit(CategoricalColumn(table, f))]

\* feature_columns after the loop: the encoded name of every categorical
\* feature the table holds is appended to the candidates
FeatureCandidates(encoded) ==
    CandidateFeatures \o [i \in 1..Len(encoded) |-> EncodedName(encoded[i])]

\* [col for col in feature_columns if col in df_encoded.columns]
AvailableAmong(columns, encoded) ==
    SelectSeq(FeatureCandidates(encoded),
              LAMBDA c : c \in columns \cup {EncodedName(f) : f \in Range(encoded)})

AvailableFeatures(table) ==
    AvailableAmong(table.columns,
                   SelectSeq(categorical_features, LAMBDA f : f \in table.columns))

\* a drift: the schema keeps every candidate name, available or not
SchemaOfCandidates(available_features) == FeatureCandidates(categorical_features)

\* self.feature_columns = available_features
SchemaOf(available_features) == available_features

\* df_encoded[feature + '_encoded']: the codes of a categorical column, under
\* the encoder the predictor holds for it or, when it holds none, under the
\* encoder fitted on the column (fit_transform)
EncodedColumn(encoders, col, feature) ==
    [i \in 1..Len(col) |->
        LabelEncoderTransform(IF feature \in DOMAIN encoders THEN encoders[feature]
                              ELSE LabelEncoderFit(col),
                              col[i])]

EncodedColumns(encoders, table) ==
    [f \in Range(categorical_features) \cap table.columns |->
        EncodedColumn(encoders, CategoricalColumn(table, f), f)]

Prepared(self, encoders, available_features, encoded) ==
    [self |-> [self EXCEPT !.label_encoders = encoders,
                           !.feature_columns = SchemaOf(available_features)],
     X |-> available_features,
     encoded |-> encoded]

\* returns X: its column names and, of its cells, the codes of the
\* categorical columns (the other cells reach the estimators only)
prepare_features(self, table) ==
    Prepared(self, FittedEncoders(self.label_encoders, table), AvailableFeatures(table),
             EncodedColumns(self.label_encoders, table))

(***************************************************************************)
(* FlightDelayPredictor.__init__ and train_model.                          *)
(***************************************************************************)
UnfittedScaler == [fitted |-> FALSE, columns |-> <<>>, data |-> <<>>]

NewPredictor ==
    [model |-> <<>>,
     label_encoders |-> EmptyDict,
     scaler |-> UnfittedScaler,
     feature_columns |-> <<>>,
     airport_stats |-> EmptyDict,
     model_metadata |-> EmptyDict]

\* the candidates, in the order the models dict is walked
ModelFamilies == <<"RandomForest", "GradientBoosting">>

\* ROC-AUC scores (thousandths) the evaluation may give a candidate
AucScores == {0, 500, 800}

\* train_test_split(X, y, test_size=0.2, stratify=y): the sizes, and whether
\* sklearn refuses the split
TestSize(n) == (n + 4) \div 5

SplitRefused(y) ==
    LET n == Len(y)
        classes == Range(y)
    IN  \/ n - TestSize(n) = 0
        \/ \E c \in classes : Cardinality({i \in 1..n : y[i] = c}) < 2
        \/ n - TestSize(n) < Cardinality(classes)
        \/ TestSize(n) < Cardinality(classes)

\* the candidate the selection loop keeps: the first whose score is above
\* every score before it and above the initial best_score of 0
RECURSIVE SelectBest(_, _, _)
SelectBest(auc, i, best) ==
    IF i > Len(ModelFamilies) THEN best
    ELSE LET name == ModelFamilies[i]
         IN  IF auc[name] > best.score
             THEN SelectBest(auc, i + 1, [name |-> name, score |-> auc[name]])
             ELSE SelectBest(auc, i + 1, best)

\* a fitted classifier: RandomForest is fitted on X_train, every other
\* candidate on X_train_scaled
FittedModel(name, X, data) ==
    [family |-> name, columns |-> X, scaled |-> name # "RandomForest", data |-> data]

\* the end of train_model: the scaler fitted on X_train, the best candidate
\* deployed, the metadata stored
Deployed(self, X, y, rows, best, now) ==
    [raised |-> "",
     self |-> [self EXCEPT
         !.scaler = [fitted |-> TRUE, columns |-> X, data |-> rows],
         !.model = IF best.name = "" THEN <<>> ELSE <<FittedModel(best.name, X, rows)>>,
         !.model_metadata =
             [model_type |-> best.name,
              roc_auc_score |-> best.score,
              training_samples |-> Len(y) - TestSize(Len(y)),
              test_samples |-> TestSize(Len(y)),
              feature_count |-> Len(self.feature_columns),
              delay_rate |-> <<SumSeq(y), Len(y)>>,
              trained_on |-> now,
              features |-> self.feature_columns]]]

\* train_model from the split on (pf is what prepare_features returned)
Fitted(pf, y, rows, auc, now) ==
    IF SplitRefused(y) THEN [raised |-> "ValueError", self |-> pf.self]
    ELSE Deployed(pf.self, pf.X, y, rows,
                  SelectBest(auc, 1, [name |-> "", score |-> 0]), now)

\* train_model from prepare_features on (fe is what feature_engineering
\* returned)
Trained(fe, df, auc, now) ==
    IF fe.raised # "" THEN fe
    ELSE Fitted(prepare_features(fe.self, fe), ColumnOf(df.rows, "ArrDel15"),
                df.rows, auc, now)

\* auc: the score of each candidate; now: the clock; pandas: the build
train_model(self, df, auc, now, pandas) ==
    Trained(feature_engineering(self, df, pandas), df, auc, now)

(***************************************************************************)
(* predict_delay_probability.                                              *)
(***************************************************************************)
\* dict.update
Update(d, e) == [k \in DOMAIN d \cup DOMAIN e |-> IF k \in DOMAIN e THEN e[k] ELSE d[k]]

avg_origin_stats ==
    [origin_ArrDel15_count |-> 500, origin_ArrDel15_mean |-> 220,
     origin_ArrDel15_std |-> 410, origin_DepDelay_mean |-> 8500,
     origin_DepDelay_std |-> 25000]

avg_dest_stats ==
    [dest_ArrDel15_count |-> 500, dest_ArrDel15_mean |-> 220,
     dest_ArrDel15_std |-> 410, dest_DepDelay_mean |-> 8500,
     dest_DepDelay_std |-> 25000]

TimeFeatures(day_of_week, departure_time) ==
    [DayOfWeek |-> day_of_week,
     departure_hour |-> IF IsNone(departure_time) THEN 12 ELSE departure_time[1] \div 100,
     arrival_hour |-> IF IsNone(departure_time) THEN 15 ELSE departure_time[1] \div 100 + 3,
     CRSDepTime |-> IF IsNone(departure_time) THEN 1200 ELSE departure_time[1],
     CRSArrTime |-> IF IsNone(departure_time) THEN 1500 ELSE departure_time[1] + 300,
     is_weekend |-> IF day_of_week \in {6, 7} THEN 1 ELSE 0,
     state_distance |-> 2]

\* a lookup without the fallback: an unknown airport gets zeros
RoleStatsOrZeros(table, airport, average) ==
    IF airport \in DOMAIN table THEN table[airport] ELSE [k \in DOMAIN average |-> 0]

\* the statistics of one role: the stored record of a known airport, the
\* average profile otherwise
RoleStats(table, airport, average) ==
    IF airport \in DOMAIN table THEN table[airport] ELSE average

DefaultEncodings ==
    [Carrier_encoded |-> 0, departure_period_encoded |-> 1, season_encoded |-> 1]

\* sample_data as it stands when the DataFrame is made of it
SampleData(self, origin_airport, dest_airport, day_of_week, departure_time) ==
    Update(Update(Update(TimeFeatures(day_of_week, departure_time),
                         RoleStats(self.airport_stats["origin"], origin_airport,
                                   avg_origin_stats)),
                  RoleStats(self.airport_stats["dest"], dest_airport, avg_dest_stats)),
           DefaultEncodings)

\* a selection that leaves a missing statistic missing
SelectFeaturesNoFill(feature_columns, sample_data) ==
    [columns |-> feature_columns,
     values |-> [i \in 1..Len(feature_columns) |->
                    IF feature_columns[i] \notin DOMAIN sample_data THEN 0
                    ELSE sample_data[feature_columns[i]]]]

\* sample_df[self.feature_columns].fillna(0), a feature that sample_data
\* lacks having been added as 0
SelectFeatures(feature_columns, sample_data) ==
    [columns |-> feature_columns,
     values |-> [i \in 1..Len(feature_columns) |->
                    IF feature_columns[i] \notin DOMAIN sample_data THEN 0
                    ELSE IF sample_data[feature_columns[i]] = NaN THEN 0
                    ELSE sample_data[feature_columns[i]]]]

\* a call that keeps its last sample in the predictor's metadata
AfterPredictRecording(self, sample_data) ==
    [self EXCEPT !.model_metadata = [k \in DOMAIN @ \cup {"last_sample"} |->
                                        IF k = "last_sample" THEN sample_data ELSE @[k]]]

\* what the call leaves of the predictor: it assigns to no attribute of self
AfterPredict(self, sample_data) == self

\* a check that sends every model the scaled vector
FeedsUnscaledNever(model_metadata) == FALSE

\* whether the classifier is fed the unscaled sample
FeedsUnscaled(model_metadata) ==
    "model_type" \in DOMAIN model_metadata /\ model_metadata.model_type = "RandomForest"

\* self.scaler.transform(X_sample), then the classifier's predict_proba
Scored(self, after, sample_data, X_sample) ==
    IF ~self.scaler.fitted
    THEN [raised |-> "NotFittedError", self |-> after]
    ELSE IF Len(X_sample.columns) # Len(self.scaler.columns)
            \/ Len(X_sample.columns) # Len(self.model[1].columns)
    THEN [raised |-> "ValueError", self |-> after]
    ELSE [raised |-> "",
          self |-> after,
          sample_data |-> sample_data,
          X_sample |-> X_sample,
          probability |->
              [estimator |-> self.model[1],
               X |-> X_sample,
               scaler |-> IF FeedsUnscaled(self.model_metadata)
                          THEN <<>> ELSE <<self.scaler>>]]

Sampled(self, sample_data) ==
    Scored(self, AfterPredict(self, sample_data), sample_data,
           SelectFeatures(self.feature_columns, sample_data))

predict_delay_probability(self, origin_airport, dest_airport, day_of_week, departure_time) ==
    IF IsNone(self.model)
    THEN [raised |-> "ValueError", self |-> self]
    ELSE IF ~({"origin", "dest"} \subseteq DOMAIN self.airport_stats)
    THEN [raised |-> "KeyError", self |-> self]
    ELSE Sampled(self, SampleData(self, origin_airport, dest_airport,
                                  day_of_week, departure_time))

(***************************************************************************)
(* save_model and load_model: the artifact bundle.  The model directory is *)
(* None (no directory) or the dict of its files.                           *)
(***************************************************************************)
\* the files of the bundle, in the order save_model writes and load_model
\* reads them
BundleFiles ==
    <<"flight_delay_model.pkl", "scaler.pkl", "label_encoders.pkl",
      "airport_stats.json", "feature_columns.json", "model_metadata.json">>

\* joblib.dump / joblib.load of a Python object
JoblibDump(obj) == [pickled |-> obj]

JoblibLoad(content) == content.pickled

\* a JSON object is the set of its (name, value) members
JsonObject(d) == {<<k, d[k]>> : k \in DOMAIN d}

JsonLoadObject(obj) == [k \in {m[1] : m \in obj} |-> (CHOOSE m \in obj : m[1] = k)[2]]

\* json.dump(self.airport_stats): role -> airport -> statistic -> number
JsonDumpStats(stats) ==
    JsonObject([role \in DOMAIN stats |->
        JsonObject([airport \in DOMAIN stats[role] |->
            JsonObject(stats[role][airport])])])

JsonLoadStats(content) ==
    LET roles == JsonLoadObject(content)
    IN  [role \in DOMAIN roles |->
            LET airports == JsonLoadObject(roles[role])
            IN  [airport \in DOMAIN airports |-> JsonLoadObject(airports[airport])]]

\* a JSON array of strings
JsonDumpList(list) == [array |-> list]

\* a reader that loses the order of the array
JsonLoadListReversed(content) ==
    [i \in 1..Len(content.array) |-> content.array[Len(content.array) + 1 - i]]

JsonLoadList(content) == content.array

\* the content save_model writes to a file of the bundle
FileContent(self, file) ==
    CASE file = "flight_delay_model.pkl" -> JoblibDump(self.model)
      [] file = "scaler.pkl" -> JoblibDump(self.scaler)
      [] file = "label_encoders.pkl" -> JoblibDump(self.label_encoders)
      [] file = "airport_stats.json" -> JsonDumpStats(self.airport_stats)
      [] file = "feature_columns.json" -> JsonDumpList(self.feature_columns)
      [] file = "model_metadata.json" -> JsonObject(self.model_metadata)

\* os.makedirs(model_dir, exist_ok=True), then the six files are written over
\* whatever the directory holds
save_model(self, dir) ==
    LET old == IF IsNone(dir) THEN EmptyDict ELSE dir[1]
    IN  <<Update(old, [f \in Range(BundleFiles) |-> FileContent(self, f)])>>

\* the attribute load_model assigns from a file of the bundle
ReadFile(self, file, content) ==
    CASE file = "flight_delay_model.pkl" -> [self EXCEPT !.model = JoblibLoad(content)]
      [] file = "scaler.pkl" -> [self EXCEPT !.scaler = JoblibLoad(content)]
      [] file = "label_encoders.pkl" -> [self EXCEPT !.label_encoders = JoblibLoad(content)]
      [] file = "airport_stats.json" -> [self EXCEPT !.airport_stats = JsonLoadStats(content)]
      [] file = "feature_columns.json" -> [self EXCEPT !.feature_columns = JsonLoadList(content)]
      [] file = "model_metadata.json" -> [self EXCEPT !.model_metadata = JsonLoadObject(content)]

\* the files are read one after the other: the first that is missing raises,
\* and the attributes assigned before it stay assigned
RECURSIVE LoadFrom(_, _, _)
LoadFrom(self, dir, i) ==
    IF i > Len(BundleFiles) THEN [raised |-> "", self |-> self]
    ELSE IF IsNone(dir) \/ BundleFiles[i] \notin DOMAIN dir[1]
    THEN [raised |-> "FileNotFoundError", self |-> self]
    ELSE LoadFrom(ReadFile(self, BundleFiles[i], dir[1][BundleFiles[i]]), dir, i + 1)

load_model(self, dir) == LoadFrom(self, dir, 1)

(***************************************************************************)
(* ml_api: the service.  Its handlers are module-level functions of the    *)
(* Flask app, guarded by "predictor is None": they answer whenever the app *)
(* is served, whether or not load_model was called or succeeded.           *)
(***************************************************************************)
\* a result without the predictor it carries
Returned(result) == [k \in DOMAIN result \ {"self", "predictor"} |-> result[k]]

\* the end of ml_api.load_model(): model_info is read, and the banner formats
\* the score as a float, which the default 'N/A' of a missing score refuses
Announced(predictor, info) ==
    [returns |-> "roc_auc_score" \in DOMAIN info, predictor |-> predictor,
     model_info |-> info]

\* loaded: what predictor.load_model(model_dir) did
Started(loaded, dir, old_info) ==
    IF loaded.raised # ""
    THEN [returns |-> FALSE, predictor |-> <<loaded.self>>, model_info |-> old_info]
    ELSE Announced(<<loaded.self>>, JsonLoadObject(dir[1]["model_metadata.json"]))

\* ml_api.load_model(): returns whether the model was loaded; the global
\* predictor is assigned before anything is read
ml_api_load_model(dir, old_info) ==
    IF IsNone(dir)
    THEN [returns |-> FALSE, predictor |-> <<NewPredictor>>, model_info |-> old_info]
    ELSE Started(load_model(NewPredictor, dir), dir, old_info)

health_check(predictor) ==
    [status |-> 200, model_loaded |-> ~IsNone(predictor)]

\* dict.get(key, {})
GetOrEmpty(d, key) == IF key \in DOMAIN d THEN d[key] ELSE EmptyDict

model_info_endpoint(predictor, info) ==
    IF IsNone(predictor) THEN [status |-> 500, error |-> "Model not loaded"]
    ELSE [status |-> 200, model_info |-> info,
          origin_count |-> Cardinality(DOMAIN GetOrEmpty(predictor[1].airport_stats, "origin")),
          dest_count |-> Cardinality(DOMAIN GetOrEmpty(predictor[1].airport_stats, "dest"))]

\* a label that looks both airports up in the origin table
ConfidenceOneTable(airport_stats, origin, destination) ==
    LET origin_known == origin \in DOMAIN GetOrEmpty(airport_stats, "origin")
        dest_known == destination \in DOMAIN GetOrEmpty(airport_stats, "origin")
    IN  IF origin_known /\ dest_known THEN "High"
        ELSE IF origin_known \/ dest_known THEN "Medium"
        ELSE "Low"

\* the confidence label of /predict
Confidence(airport_stats, origin, destination) ==
    LET origin_known == origin \in DOMAIN GetOrEmpty(airport_stats, "origin")
        dest_known == destination \in DOMAIN GetOrEmpty(airport_stats, "dest")
    IN  IF origin_known /\ dest_known THEN "High"
        ELSE IF origin_known \/ dest_known THEN "Medium"
        ELSE "Low"

\* the validation of dayOfWeek in /predict
ValidDayOfWeek(day_of_week) == day_of_week >= 1 /\ day_of_week <= 7

\* the response of /predict, the prediction made (call); the confidence is
\* read from the predictor after the call
Answered(call, data) ==
    IF call.raised # ""
    THEN [status |-> 500, error |-> "Prediction failed", message |-> call.raised,
          predictor |-> <<call.self>>]
    ELSE [status |-> 200,
          predictor |-> <<call.self>>,
          sample_data |-> call.sample_data,
          X_sample |-> call.X_sample,
          probability |-> call.probability,
          confidence |-> Confidence(call.self.airport_stats, data.origin, data.destination)]

\* POST /predict with a body that holds the three required parameters
predict_delay(predictor, data) ==
    IF IsNone(predictor) THEN [status |-> 500, error |-> "Model not loaded",
                               predictor |-> predictor]
    ELSE IF ~ValidDayOfWeek(data.dayOfWeek)
    THEN [status |-> 400, error |-> "dayOfWeek must be an integer between 1 (Monday) and 7 (Sunday)",
          predictor |-> predictor]
    ELSE Answered(predict_delay_probability(predictor[1], data.origin, data.destination,
                                            data.dayOfWeek, data.departureTime),
                  data)

\* one route of POST /batch-predict
Predicted(call, route) ==
    IF call.raised # ""
    THEN [success |-> FALSE, route |-> route, error |-> call.raised, self |-> call.self]
    ELSE [success |-> TRUE, route |-> route, self |-> call.self,
          sample_data |-> call.sample_data,
          X_sample |-> call.X_sample, probability |-> call.probability]

BatchRoute(predictor, route) ==
    Predicted(predict_delay_probability(predictor, route.origin, route.destination,
                                        route.dayOfWeek, route.departureTime),
              route)

\* the loop over data['routes']: the predictions list, each entry with the
\* predictor as its call left it
RECURSIVE BatchLoop(_, _, _)
BatchLoop(predictor, routes, predictions) ==
    IF routes = <<>> THEN predictions
    ELSE BatchLoop(predictor, Tail(routes),
                   Append(predictions,
                          BatchRoute(IF predictions = <<>> THEN predictor
                                     ELSE predictions[Len(predictions)].self,
                                     Head(routes))))

Batched(predictions) ==
    [status |-> 200,
     predictor |-> <<predictions[Len(predictions)].self>>,
     predictions |-> [i \in 1..Len(predictions) |-> Returned(predictions[i])]]

\* POST /batch-predict with a non-empty "routes" array
batch_predict(predictor, routes) ==
    IF IsNone(predictor) THEN [status |-> 500, error |-> "Model not loaded",
                               predictor |-> predictor]
    ELSE Batched(BatchLoop(predictor[1], routes, <<>>))

get_airports(predictor) ==
    IF IsNone(predictor) THEN [status |-> 500, error |-> "Model not loaded"]
    ELSE LET origin_airports == DOMAIN GetOrEmpty(predictor[1].airport_stats, "origin")
             dest_airports == DOMAIN GetOrEmpty(predictor[1].airport_stats, "dest")
         IN  [status |-> 200,
              all |-> origin_airports \cup dest_airports,
              origin_only |-> origin_airports \ dest_airports,
              destination_only |-> dest_airports \ origin_airports,
              both |-> origin_airports \cap dest_airports]

(***************************************************************************)
(* The state machine.  It follows the workflow of the repository:          *)
(* train_model.main() constructs a predictor and trains it once ("new" to  *)
(* "trained", or to "failed" when train_model raises), then saves it       *)
(* ("bundle"), or is given further batches to prepare ("prepared");       *)
(* feature_engineering may be called alone on a new predictor               *)
(* ("engineered");                                                         *)
(* files of the model directory may go missing; the service    *)
(* loads the directory once, at startup ("serving").  predict_delay_-      *)
(* probability may be called on the trainer's predictor before and after   *)
(* training; the handlers of the service answer before the startup load    *)
(* ("new": predictor is None) and after it.                                *)
(***************************************************************************)
Airports == {"JFK", "LAX"}

\* (dayOfWeek, departureTime): a weekday without and with a departure time,
\* and a day that is none
Schedules == {<<3, <<>>>>, <<3, <<930>>>>, <<3, <<2230>>>>, <<9, <<>>>>}

Routes ==
    {[origin |-> o, destination |-> d, dayOfWeek |-> w[1], departureTime |-> w[2]] :
        o \in Airports, d \in Airports, w \in Schedules}

MaxBatch == 1       \* routes of a /batch-predict request

BatchRoutes == {r \in Routes : r.origin = "JFK" /\ r.destination = "LAX"
                                 /\ r.departureTime = <<>>}

Batches == SeqsUpTo(BatchRoutes, MaxBatch) \ {<<>>}

Clock == "2025-01-01T00:00:00"

Init ==
    /\ trainer = NewPredictor
    /\ disk = <<>>
    /\ saved = <<>>
    /\ api_predictor = <<>>
    /\ model_info = EmptyDict
    /\ load_returned = <<>>
    /\ phase = "new"
    /\ response = [op |-> "init"]

TrainReturns(run, df, auc) ==
    /\ trainer' = run.self
    /\ phase' = IF run.raised = "" THEN "trained" ELSE "failed"
    /\ response' = [op |-> "train_model", df |-> df, auc |-> auc, raised |-> run.raised]

TrainModel(df, auc, pandas) ==
    /\ phase = "new"
    /\ TrainReturns(train_model(trainer, df, auc, Clock, pandas), df, auc)
    /\ UNCHANGED <<disk, saved, api_predictor, model_info, load_returned>>

DirectReturns(call, route) ==
    /\ trainer' = call.self
    /\ response' = [op |-> "predict_delay_probability", request |-> route,
                    result |-> Returned(call)]

PredictDirect(route) ==
    /\ phase \in {"new", "trained", "failed"}
    /\ DirectReturns(predict_delay_probability(trainer, route.origin, route.destination,
                                               route.dayOfWeek, route.departureTime),
                     route)
    /\ UNCHANGED <<disk, saved, api_predictor, model_info, load_returned, phase>>

\* the hours of a day
DayHours == 0..23

\* batches of one flight, one for each hour of the day, and the base corpus
ProbeFiles ==
    {[columns |-> AllColumns,
      rows |-> <<Flight("JFK", "LAX", 0, 1, 0, 100 * h + 15, 1, "DL")>>] : h \in DayHours}

FeatureEngineeringReturns(fe, df) ==
    /\ trainer' = fe.self
    /\ response' = IF fe.raised # ""
                   THEN [op |-> "feature_engineering", df |-> df, raised |-> fe.raised]
                   ELSE [op |-> "feature_engineering", df |-> df, raised |-> "",
                         table |-> [departure_period |-> fe.departure_period,
                                    season |-> fe.season,
                                    statistics |-> fe.statistics]]

\* a call of feature_engineering on a new predictor
FeatureEngineering(df, pandas) ==
    /\ phase = "new"
    /\ FeatureEngineeringReturns(feature_engineering(trainer, df, pandas), df)
    /\ phase' = "engineered"
    /\ UNCHANGED <<disk, saved, api_predictor, model_info, load_returned>>

\* the engineered tables of the complete training files, as
\* feature_engineering of another predictor returned them
EngineeredBatches ==
    {feature_engineering(NewPredictor, df, "lenient") :
        df \in {f \in TrainingFiles :
                   feature_engineering(NewPredictor, f, "lenient").raised = ""}}

PrepareReturns(pf, table) ==
    /\ trainer' = pf.self
    /\ response' = [op |-> "prepare_features",
                    values |-> [f \in DOMAIN pf.encoded |-> CategoricalColumn(table, f)],
                    encoded |-> pf.encoded,
                    X |-> pf.X]

\* a later call of prepare_features on the trained predictor, with a batch
\* that was engineered elsewhere
PrepareFeatures(table) ==
    /\ phase \in {"trained", "prepared"}
    /\ PrepareReturns(prepare_features(trainer, table), table)
    /\ phase' = "prepared"
    /\ UNCHANGED <<disk, saved, api_predictor, model_info, load_returned>>

SaveModel ==
    /\ phase = "trained"
    /\ disk' = save_model(trainer, disk)
    /\ saved' = <<trainer>>
    /\ phase' = "bundle"
    /\ response' = [op |-> "save_model"]
    /\ UNCHANGED <<trainer, api_predictor, model_info, load_returned>>

RemoveFile(file) ==
    /\ phase = "bundle"
    /\ file \in DOMAIN disk[1]
    /\ Len(BundleFiles) - Cardinality(DOMAIN disk[1]) < MaxMissing
    /\ disk' = <<[f \in DOMAIN disk[1] \ {file} |-> disk[1][f]]>>
    /\ response' = [op |-> "remove", file |-> file]
    /\ UNCHANGED <<trainer, saved, api_predictor, model_info, load_returned, phase>>

\* How the module is hosted: run as a script, its __main__ block serves the
\* app only when load_model() returned True and exits otherwise; imported (a
\* WSGI server, a test client), the app is served whatever load_model()
\* returned to its caller.
Hosts == {"script", "import"}

StartupReturns(startup, host) ==
    /\ api_predictor' = startup.predictor
    /\ model_info' = startup.model_info
    /\ load_returned' = <<startup.returns>>
    /\ phase' = IF host = "script" /\ ~startup.returns THEN "exited" ELSE "serving"
    /\ response' = [op |-> "load_model", returns |-> startup.returns]

ApiLoadModel(host) ==
    /\ phase \in {"new", "bundle"}
    /\ StartupReturns(ml_api_load_model(disk, model_info), host)
    /\ UNCHANGED <<trainer, disk, saved>>

Health ==
    /\ phase \in {"new", "serving"}
    /\ response' = [op |-> "health", result |-> health_check(api_predictor)]
    /\ UNCHANGED <<trainer, disk, saved, api_predictor, model_info, load_returned, phase>>

ModelInfo ==
    /\ phase \in {"new", "serving"}
    /\ response' = [op |-> "model_info",
                    result |-> model_info_endpoint(api_predictor, model_info)]
    /\ UNCHANGED <<trainer, disk, saved, api_predictor, model_info, load_returned, phase>>

\* a handler that calls the predictor answers
Responds(op, request, answer) ==
    /\ api_predictor' = answer.predictor
    /\ response' = [op |-> op, request |-> request, result |-> Returned(answer)]

Predict(data) ==
    /\ phase \in {"new", "serving"}
    /\ Responds("predict", data, predict_delay(api_predictor, data))
    /\ UNCHANGED <<trainer, disk, saved, model_info, load_returned, phase>>

BatchPredict(routes) ==
    /\ phase \in {"new", "serving"}
    /\ Responds("batch_predict", routes, batch_predict(api_predictor, routes))
    /\ UNCHANGED <<trainer, disk, saved, model_info, load_returned, phase>>

GetAirports ==
    /\ phase \in {"new", "serving"}
    /\ response' = [op |-> "airports", result |-> get_airports(api_predictor)]
    /\ UNCHANGED <<trainer, disk, saved, api_predictor, model_info, load_returned, phase>>

Next ==
    \/ \E df \in TrainingFiles, auc \in [Range(ModelFamilies) -> AucScores],
          pandas \in PandasBuilds : TrainModel(df, auc, pandas)
    \/ \E route \in Routes : PredictDirect(route)
    \/ \E df \in TrainingFiles \cup ProbeFiles, pandas \in PandasBuilds :
          FeatureEngineering(df, pandas)
    \/ \E table \in EngineeredBatches : PrepareFeatures(table)
    \/ SaveModel
    \/ \E file \in Range(BundleFiles) : RemoveFile(file)
    \/ \E host \in Hosts : ApiLoadModel(host)
    \/ Health
    \/ ModelInfo
    \/ \E data \in Routes : Predict(data)
    \/ \E routes \in Batches : BatchPredict(routes)
    \/ GetAirports

Spec == Init /\ [][Next]_vars

(***************************************************************************)
(* Properties.  An inference path answers with a result per route: the     *)
(* direct call and /predict with one, /batch-predict with one per route.   *)
(***************************************************************************)
\* the predictor the last operation called: the trainer's or the service's
Predictor == IF response.op = "predict_delay_probability" THEN <<trainer>> ELSE api_predictor

\* the result carries a delay probability
Gave(result) == "probability" \in DOMAIN result

\* P holds of every (route, result) the last operation answered
EveryAnswer(P(_, _)) ==
    /\ response.op \in {"predict_delay_probability", "predict"}
          => P(response.request, response.result)
    /\ (response.op = "batch_predict" /\ "predictions" \in DOMAIN response.result)
          => \A i \in 1..Len(response.request) :
                P(response.request[i], response.result.predictions[i])

\* the bundle in the model directory lacks none of its six files
BundleComplete == disk # <<>> /\ Range(BundleFiles) \subseteq DOMAIN disk[1]

\* C1: every feature vector handed to the model has exactly the names of
\* feature_columns, in the same order, and a value (never NaN) in every entry.
C1_VectorMatchesSchema ==
    EveryAnswer(LAMBDA request, result :
        Gave(result) =>
            /\ result.X_sample.columns = Predictor[1].feature_columns
            /\ DOMAIN result.X_sample.values = 1..Len(Predictor[1].feature_columns)
            /\ \A i \in DOMAIN result.X_sample.values : result.X_sample.values[i] # NaN)

\* C1 happens: /predict answered a query with a departure time whose origin
\* has a stored standard deviation that is NaN, and the vector holds 0 there
C1_Witness ==
    /\ response.op = "predict"
    /\ Gave(response.result)
    /\ response.request.departureTime # <<>>
    /\ response.result.sample_data["origin_ArrDel15_std"] = NaN
    /\ \E i \in 1..Len(response.result.X_sample.columns) :
          /\ response.result.X_sample.columns[i] = "origin_ArrDel15_std"
          /\ response.result.X_sample.values[i] = 0

\* the statistics of a role in the sample are the stored record of a known
\* airport, and the average profile (500, 0.22, 0.41, 8.5, 25.0) of an unknown
\* one, which the vector holds too
HalfResolved(result, table, airport, role) ==
    IF airport \in DOMAIN table
    THEN \A k \in DOMAIN table[airport] :
            k \in DOMAIN result.sample_data /\ result.sample_data[k] = table[airport][k]
    ELSE /\ result.sample_data[role \o "_ArrDel15_count"] = 500
         /\ result.sample_data[role \o "_ArrDel15_mean"] = 220
         /\ result.sample_data[role \o "_ArrDel15_std"] = 410
         /\ result.sample_data[role \o "_DepDelay_mean"] = 8500
         /\ result.sample_data[role \o "_DepDelay_std"] = 25000
         /\ \A i \in 1..Len(result.X_sample.columns) :
               result.X_sample.columns[i] \in
                   {role \o "_ArrDel15_count", role \o "_ArrDel15_mean",
                    role \o "_ArrDel15_std", role \o "_DepDelay_mean",
                    role \o "_DepDelay_std"}
               => /\ result.X_sample.values[i] # 0
                  /\ result.X_sample.values[i] = result.sample_data[result.X_sample.columns[i]]

\* the predictor was trained, or loaded from a complete bundle, and deployed
\* a model
Usable ==
    /\ Predictor # <<>>
    /\ Predictor[1].model # <<>>
    /\ response.op = "predict_delay_probability" \/ load_returned = <<TRUE>>

\* C2: the origin half and the destination half of the statistics are
\* resolved independently, each from its own role table: the stored record of
\* a known airport, the average profile of an unknown one, which never gives
\* zeros and never makes a usable predictor raise.
C2_FallbackPerRole ==
    EveryAnswer(LAMBDA request, result :
        /\ Gave(result) =>
              /\ HalfResolved(result, Predictor[1].airport_stats["origin"],
                              request.origin, "origin")
              /\ HalfResolved(result, Predictor[1].airport_stats["dest"],
                              request.destination, "dest")
        /\ (Usable /\ (response.op = "predict" => request.dayOfWeek \in 1..7))
              => Gave(result))

\* C2 happens: a query whose origin is known and whose destination is not
\* was answered with a probability
C2_Witness ==
    /\ response.op = "predict"
    /\ Gave(response.result)
    /\ response.request.origin \in DOMAIN api_predictor[1].airport_stats["origin"]
    /\ response.request.destination \notin DOMAIN api_predictor[1].airport_stats["dest"]
    /\ response.result.sample_data["dest_ArrDel15_count"] = 500

\* C3: on every inference path a day of week outside 1..7 is answered with an
\* error and never with a probability.
C3_DayOfWeekValidated ==
    EveryAnswer(LAMBDA request, result :
        request.dayOfWeek \notin 1..7 => ~Gave(result))

\* C3 fails: /batch-predict answered a route whose day of week is 9 with a
\* probability
C3_BatchAcceptsDay ==
    /\ response.op = "batch_predict"
    /\ "predictions" \in DOMAIN response.result
    /\ \E i \in 1..Len(response.request) :
          /\ response.request[i].dayOfWeek = 9
          /\ response.result.predictions[i].success
          /\ Gave(response.result.predictions[i])

\* C4: a prediction requested before any train_model or load_model has
\* completed successfully fails with an error and returns no probability.
C4_NoPredictionBeforeModel ==
    /\ (response.op = "predict_delay_probability" /\ phase \in {"new", "failed"})
          => (~Gave(response.result) /\ response.result.raised = "ValueError")
    /\ load_returned # <<TRUE>>
          => EveryAnswer(LAMBDA request, result :
                response.op \in {"predict", "batch_predict"} => ~Gave(result))

\* C4 fails: no training and no load has completed for the service's
\* predictor (load_model() returned False), and /batch-predict answers a
\* route with a probability
C4_ServedBeforeLoadCompleted ==
    /\ load_returned = <<FALSE>>
    /\ response.op = "batch_predict"
    /\ "predictions" \in DOMAIN response.result
    /\ \E i \in 1..Len(response.request) : Gave(response.result.predictions[i])

\* C5: when a file of the bundle is missing at load time the load fails, no
\* prediction request returns a probability afterwards, and the service does
\* not report the model as loaded.
C5_IncompleteBundleNeverServes ==
    (load_returned # <<>> /\ ~BundleComplete) =>
        /\ load_returned = <<FALSE>>
        /\ EveryAnswer(LAMBDA request, result :
              response.op \in {"predict", "batch_predict"} => ~Gave(result))
        /\ response.op = "health" => ~response.result.model_loaded

\* C5 fails: the load of a bundle without model_metadata.json returned False
\* and /predict answers with a probability
C5_ServedFromPartialLoad ==
    /\ load_returned = <<FALSE>>
    /\ disk # <<>>
    /\ BundleFiles[6] \notin DOMAIN disk[1]
    /\ response.op = "predict"
    /\ Gave(response.result)

\* the operations that query a predictor
QueryOps ==
    {"predict_delay_probability", "predict", "batch_predict", "airports",
     "model_info", "health"}

\* C6: a query leaves the predictors (model, scaler, encoders, statistics,
\* feature names, metadata), the service's model_info and the bundle as they
\* were.
C6_QueriesReadOnly ==
    [][response'.op \in QueryOps
          => UNCHANGED <<trainer, api_predictor, model_info, disk, saved>>]_vars

\* C6 happens: /batch-predict answered a route with a probability
C6_Witness ==
    /\ response.op = "batch_predict"
    /\ "predictions" \in DOMAIN response.result
    /\ \E i \in 1..Len(response.request) : Gave(response.result.predictions[i])

C8_ConfidenceLabel ==
    (response.op = "predict" /\ Gave(response.result)) =>
        LET origin_found == response.request.origin
                                \in DOMAIN api_predictor[1].airport_stats["origin"]
            dest_found == response.request.destination
                              \in DOMAIN api_predictor[1].airport_stats["dest"]
        IN  /\ response.result.confidence = "High" <=> (origin_found /\ dest_found)
            /\ response.result.confidence = "Medium" <=> (origin_found # dest_found)
            /\ response.result.confidence = "Low" <=> (~origin_found /\ ~dest_found)
            /\ origin_found <=> "origin_ArrDelay_mean" \in DOMAIN response.result.sample_data
            /\ dest_found <=> "dest_ArrDelay_mean" \in DOMAIN response.result.sample_data

\* C8 happens: an airport that the other role's table holds, and its own
\* role's table does not, was counted as not found (Medium)
C8_Witness ==
    /\ response.op = "predict"
    /\ Gave(response.result)
    /\ response.result.confidence = "Medium"
    /\ response.request.destination
          \in DOMAIN api_predictor[1].airport_stats["origin"]
              \ DOMAIN api_predictor[1].airport_stats["dest"]

\* C9: train_model on a file without rows, or without the column ArrDel15,
\* raises and leaves the model unset and the scaler, the encoders, the
\* airport statistics and the feature names as they were.
C9_FailsFastWithoutStateChange ==
    (/\ response.op = "train_model"
     /\ response.df.rows = <<>> \/ "ArrDel15" \notin response.df.columns) =>
        /\ response.raised # ""
        /\ trainer.model = <<>>
        /\ trainer.scaler = NewPredictor.scaler
        /\ trainer.label_encoders = NewPredictor.label_encoders
        /\ trainer.airport_stats = NewPredictor.airport_stats
        /\ trainer.feature_columns = NewPredictor.feature_columns

\* C9 fails: train_model on a file without rows raised after it had replaced
\* the airport statistics
C9_StatisticsReplaced ==
    /\ response.op = "train_model"
    /\ response.df.rows = <<>>
    /\ response.raised # ""
    /\ trainer.airport_stats # NewPredictor.airport_stats

\* C10: after a completed training run the names the deployed model was
\* fitted on, feature_columns, the metadata's features and feature_count, and
\* the list save_model wrote are one list.
C10_NoSchemaDrift ==
    (phase \in {"trained", "bundle"} \/ saved # <<>>) =>
        /\ trainer.model # <<>> => trainer.model[1].columns = trainer.feature_columns
        /\ trainer.model_metadata.features = trainer.feature_columns
        /\ trainer.model_metadata.feature_count = Len(trainer.feature_columns)
        /\ (disk # <<>> /\ BundleFiles[5] \in DOMAIN disk[1])
              => JsonLoadList(disk[1][BundleFiles[5]]) = trainer.feature_columns

\* C10 happens: a model was trained on a file without the Carrier column, a
\* candidate of the schema, and saved
C10_Witness ==
    /\ phase = "bundle"
    /\ trainer.model # <<>>
    /\ "Carrier_encoded" \notin Range(trainer.feature_columns)
    /\ BundleFiles[5] \in DOMAIN disk[1]

\* C11: whatever the candidates score (ties and 0 included), a training run
\* that completes deploys a candidate whose score no candidate exceeds, and
\* the metadata names that candidate's family and score.
C11_BestCandidateDeployed ==
    (response.op = "train_model" /\ response.raised = "") =>
        /\ trainer.model # <<>>
        /\ \A f \in Range(ModelFamilies) :
              response.auc[f] <= response.auc[trainer.model[1].family]
        /\ trainer.model_metadata.model_type = trainer.model[1].family
        /\ trainer.model_metadata.roc_auc_score = response.auc[trainer.model[1].family]

\* C11 fails: every candidate scored 0 and the completed run deployed no
\* model, under a metadata that names no family
C11_NothingDeployed ==
    /\ response.op = "train_model"
    /\ response.raised = ""
    /\ \A f \in Range(ModelFamilies) : response.auc[f] = 0
    /\ trainer.model = <<>>
    /\ trainer.model_metadata.model_type = ""

\* the place of a string in Python's order of the strings
SortPosition(v) == CHOOSE i \in 1..Len(SortOrder) : SortOrder[i] = v

\* the code of a value under its table: the number of the table's values
\* that sort before it, and -1 for a value the table does not hold
FrozenCode(classes_, v) ==
    IF v \in Range(classes_)
    THEN Cardinality({c \in Range(classes_) : SortPosition(c) < SortPosition(v)})
    ELSE -1

\* C12: a call of prepare_features on a predictor that holds the encoding
\* table of a categorical feature leaves that table as it was and encodes the
\* feature's column by it: a value of the table by its code in sort order, any
\* other value by -1.
C12_EncodersFrozen ==
    [][response'.op = "prepare_features" =>
          \A f \in DOMAIN trainer.label_encoders :
              /\ f \in DOMAIN trainer'.label_encoders
              /\ trainer'.label_encoders[f] = trainer.label_encoders[f]
              /\ f \in DOMAIN response'.encoded =>
                    \A i \in 1..Len(response'.values[f]) :
                        response'.encoded[f][i]
                            = FrozenCode(trainer.label_encoders[f].classes_,
                                         response'.values[f][i])]_vars

\* C12 happens: a batch held a carrier the fitted table does not hold, next
\* to carriers it holds, and was encoded with -1 and with their codes without
\* the table growing
C12_Witness ==
    /\ response.op = "prepare_features"
    /\ "Carrier" \in DOMAIN response.encoded
    /\ \E i \in 1..Len(response.values["Carrier"]) :
          /\ response.values["Carrier"][i] \notin Range(trainer.label_encoders["Carrier"].classes_)
          /\ response.encoded["Carrier"][i] = -1
    /\ \E i \in 1..Len(response.values["Carrier"]) :
          /\ response.values["Carrier"][i] \in Range(trainer.label_encoders["Carrier"].classes_)
          /\ response.encoded["Carrier"][i] > 0

\* the bucket of an hour: night [0,6), morning [6,12), afternoon [12,18),
\* evening [18,24)
HalfOpenPeriod(hour) ==
    IF hour < 6 THEN "night"
    ELSE IF hour < 12 THEN "morning"
    ELSE IF hour < 18 THEN "afternoon"
    ELSE "evening"

\* C13: feature_engineering gives the flight of every departure hour 0..23
\* the departure_period of the half-open bucket that holds the hour.
C13_HalfOpenBuckets ==
    (response.op = "feature_engineering" /\ response.raised = "") =>
        \A i \in 1..Len(response.df.rows) :
            response.df.rows[i].CRSDepTime \div 100 \in DayHours
                => response.table.departure_period[i]
                       = HalfOpenPeriod(response.df.rows[i].CRSDepTime \div 100)

\* C13 fails: a flight that departs in hour 6 was bucketed as night
C13_HourSixIsNight ==
    /\ response.op = "feature_engineering"
    /\ response.raised = ""
    /\ \E i \in 1..Len(response.df.rows) :
          /\ response.df.rows[i].CRSDepTime \div 100 = 6
          /\ response.table.departure_period[i] = "night"

\* every record of the statistics tables holds its seven statistics, none of
\* them missing, and a standard deviation of 0 for an airport with one flight
FullyPopulated(airport_stats) ==
    \A role \in DOMAIN airport_stats :
        \A airport \in DOMAIN airport_stats[role] :
            /\ DOMAIN airport_stats[role][airport]
                   = {role \o "_ArrDel15_count", role \o "_ArrDel15_mean",
                      role \o "_ArrDel15_std", role \o "_DepDelay_mean",
                      role \o "_DepDelay_std", role \o "_ArrDelay_mean",
                      role \o "_ArrDelay_std"}
            /\ \A k \in DOMAIN airport_stats[role][airport] :
                  airport_stats[role][airport][k] # NaN
            /\ airport_stats[role][airport][role \o "_ArrDel15_count"] = 1
                  => /\ airport_stats[role][airport][role \o "_ArrDel15_std"] = 0
                     /\ airport_stats[role][airport][role \o "_DepDelay_std"] = 0
                     /\ airport_stats[role][airport][role \o "_ArrDelay_std"] = 0

\* C14: in the statistics tables create_airport_features builds, and in those
\* save_model writes, the standard deviations of an airport with one flight
\* in a role are 0 and no entry of any record is missing.
C14_SingleFlightStdIsZero ==
    /\ FullyPopulated(trainer.airport_stats)
    /\ (disk # <<>> /\ BundleFiles[4] \in DOMAIN disk[1])
          => FullyPopulated(JsonLoadStats(disk[1][BundleFiles[4]]))

\* C14 fails: the saved statistics hold an airport with one flight as origin
\* whose standard deviation of ArrDel15 is NaN
C14_SavedStdIsNaN ==
    /\ disk # <<>>
    /\ BundleFiles[4] \in DOMAIN disk[1]
    /\ \E airport \in DOMAIN JsonLoadStats(disk[1][BundleFiles[4]])["origin"] :
          /\ JsonLoadStats(disk[1][BundleFiles[4]])["origin"][airport]["origin_ArrDel15_count"] = 1
          /\ JsonLoadStats(disk[1][BundleFiles[4]])["origin"][airport]["origin_ArrDel15_std"] = NaN

\* the statistic a row's airport has in the tables the call stored
StoredStatistic(key, row) ==
    IF key \in Range(OriginStatKeys)
    THEN trainer.airport_stats["origin"][row.OriginAirportName][key]
    ELSE trainer.airport_stats["dest"][row.DestAirportName][key]

\* v (in halves) is a median of the values the rows have for the key: no more
\* than half of them lie below it, no more than half above
MedianOfPresent(v, key, rows) ==
    /\ 2 * Cardinality({i \in 1..Len(rows) :
                           /\ StoredStatistic(key, rows[i]) # NaN
                           /\ 2 * StoredStatistic(key, rows[i]) < v})
          <= Cardinality({i \in 1..Len(rows) : StoredStatistic(key, rows[i]) # NaN})
    /\ 2 * Cardinality({i \in 1..Len(rows) :
                           /\ StoredStatistic(key, rows[i]) # NaN
                           /\ 2 * StoredStatistic(key, rows[i]) > v})
          <= Cardinality({i \in 1..Len(rows) : StoredStatistic(key, rows[i]) # NaN})

\* C15: feature_engineering of a batch that is not empty returns, without
\* raising, a table in which no value is missing: a missing statistic is
\* replaced by the median of its column, also when the whole column is
\* missing, and a departure_period column without any bucketed hour holds
\* 'Unknown'.
C15_NoMissingValues ==
    (/\ response.op = "feature_engineering"
     /\ response.df.rows # <<>>
     /\ AggColumns \cup EngineeringColumns \subseteq response.df.columns) =>
        /\ response.raised = ""
        /\ \A k \in DOMAIN response.table.statistics :
              \A i \in 1..Len(response.df.rows) :
                  /\ response.table.statistics[k][i] # NaN
                  /\ StoredStatistic(k, response.df.rows[i]) = NaN
                        => MedianOfPresent(response.table.statistics[k][i], k,
                                           response.df.rows)
        /\ (\A i \in 1..Len(response.df.rows) :
               departure_period(response.df.rows[i].CRSDepTime \div 100) = <<>>)
              => \A i \in 1..Len(response.df.rows) :
                    response.table.departure_period[i] = "Unknown"

\* C15 fails: the batch holds one flight, so every standard deviation of its
\* table is missing, and the returned table still holds them as NaN
C15_StdLeftMissing ==
    /\ response.op = "feature_engineering"
    /\ response.raised = ""
    /\ Len(response.df.rows) = 1
    /\ response.table.statistics["origin_ArrDel15_std"][1] = NaN
    /\ response.table.statistics["dest_DepDelay_std"][1] = NaN

\* the predictor the last operation asked came from a train_model that
\* completed, or from a load_model that completed
TrainedOrLoaded ==
    IF response.op = "predict_delay_probability"
    THEN phase = "trained"
    ELSE load_returned = <<TRUE>>

ValidHHMM(t) == t \in 0..2359 /\ t % 100 < 60

\* C17: for a departure time that is a valid HHMM integer the synthesised
\* departure_hour and arrival_hour are in 0..23 and CRSArrTime is a valid
\* HHMM value; without a departure time the values are departure_hour 12,
\* arrival_hour 15, CRSDepTime 1200, CRSArrTime 1500.
C17_TimeFeaturesInRange ==
    EveryAnswer(LAMBDA request, result :
        Gave(result) =>
            IF request.departureTime = <<>>
            THEN /\ result.sample_data.departure_hour = 12
                 /\ result.sample_data.arrival_hour = 15
                 /\ result.sample_data.CRSDepTime = 1200
                 /\ result.sample_data.CRSArrTime = 1500
            ELSE ValidHHMM(request.departureTime[1]) =>
                 /\ result.sample_data.departure_hour \in DayHours
                 /\ result.sample_data.arrival_hour \in DayHours
                 /\ ValidHHMM(result.sample_data.CRSArrTime))

\* C17 fails: /predict answered a flight leaving at 22:30 from a sample whose
\* arrival hour is 25 and whose scheduled arrival time is 2530
C17_ArrivalPastMidnight ==
    /\ response.op = "predict"
    /\ Gave(response.result)
    /\ response.request.departureTime = <<2230>>
    /\ response.result.sample_data.departure_hour = 22
    /\ response.result.sample_data.arrival_hour = 25
    /\ response.result.sample_data.CRSArrTime = 2530
====
